---- MODULE Spec2Model ----
(***************************************************************************)
(* Model of wonnx's graph builder (wonnx/src/ir.rs: Node::from_model,      *)
(* Node::from_node, Node::is_constant) and of its kernel compiler          *)
(* (src/compiler.rs: compile).                                             *)
(*                                                                         *)
(* Node handles (Arc<Node>) are indices into `heap`, the sequence of every *)
(* Node allocated by Arc::new during one build, so referential identity    *)
(* (Arc::ptr_eq, NodeIdentifier::eq) is equality of indices.               *)
(***************************************************************************)
EXTENDS Integers, Sequences, FiniteSets, TLC

VARIABLES
    model,                       \* the ModelProto handed to from_model
    outputs,                     \* from_model's `outputs: Option<&[String]>`
    pc,                          \* position inside from_model
    value_shapes,                \* ir.rs:203 keys of the shape table
    node_definitions_by_output,  \* ir.rs:216
    output_names,                \* ir.rs:237
    nodes_by_name,               \* ir.rs:260 the memo map, name -> handle
    heap,                        \* every Node allocated so far
    output_nodes,                \* ir.rs:262 edges collected so far
    result,                      \* what from_model / from_node returned
    call_node,                   \* from_node's `node`, when called directly
    op,                          \* compile's `node` with its dims_infos entries
    compiled                     \* what compile returned

irVars == <<model, outputs, pc, value_shapes, node_definitions_by_output,
            output_names, nodes_by_name, heap, output_nodes, result, call_node>>

compilerVars == <<op, compiled>>

vars == <<irVars, compilerVars>>

---------------------------------------------------------------------------
(* Bounds of the explored inputs. *)
MaxOps == 2
MaxIn == 2
MaxReq == 2

SeqsUpTo(S, n) == UNION {[1..k -> S] : k \in 0..n}

Range(s) == {s[k] : k \in DOMAIN s}

---------------------------------------------------------------------------
(* ModelProto inputs.  Operator k declares the outputs OutputsOf(k, n); its *)
(* inputs are names of initializers / graph inputs / nothing at all, or     *)
(* names declared by operators listed before it (the node list of a model   *)
(* is topologically sorted and its value names are unique).                 *)

FirstOut == <<"o1", "o2", "o3", "o4">>
SecondOut == <<"p1", "p2", "p3", "p4">>

OutputsOf(k, n) == IF n = 1 THEN <<FirstOut[k]>> ELSE <<FirstOut[k], SecondOut[k]>>

ExternalNames == {"t", "i"}

DeclaredBefore(k) == {FirstOut[j] : j \in 1..(k - 1)} \cup {SecondOut[j] : j \in 1..(k - 1)}

\* the first operator may declare a second output, the others declare one
OutputCounts(k) == IF k = 1 THEN {1, 2} ELSE {1}

NodeProtos(k) ==
    {[input |-> ins, output |-> OutputsOf(k, n)] :
        ins \in SeqsUpTo(ExternalNames \cup DeclaredBefore(k), MaxIn),
        n \in OutputCounts(k)}

RECURSIVE NodeLists(_)
NodeLists(n) ==
    IF n = 0 THEN {<<>>}
    ELSE {Append(l, p) : l \in NodeLists(n - 1), p \in NodeProtos(n)}

Graphs(max) == UNION {NodeLists(n) : n \in 0..max}

AllValueNames == ExternalNames \cup DeclaredBefore(MaxOps + 1)

(* Names a caller may request: operator outputs (the last one is declared   *)
(* only by graphs of MaxOps operators) and the name "t", which the          *)
(* registries below make an initializer, a graph input, both or nothing.    *)
RequestNames == {FirstOut[1], SecondOut[1], FirstOut[MaxOps], "t"}

RequestLists == SeqsUpTo(RequestNames, MaxReq)

(* Initializers and declared graph inputs.  A graph input may repeat the    *)
(* name of an initializer or of an operator output (ir.rs:249 skips it).    *)
Registries ==
    {[initializer |-> ini, input |-> inp] :
        ini \in SUBSET {"t"}, inp \in {{"i"}, {"i", "t", FirstOut[1]}}}

(* The value_info section: complete, lacking the shape of o1, or holding a  *)
(* shape descriptor that get_shape rejects.                                 *)
ShapeTables ==
    {[value_info |-> AllValueNames, shape_error |-> FALSE],
     [value_info |-> AllValueNames \ {FirstOut[1]}, shape_error |-> FALSE],
     [value_info |-> AllValueNames, shape_error |-> TRUE]}

Models(max) ==
    {[node |-> g, initializer |-> r.initializer, input |-> r.input,
      output |-> o, value_info |-> s.value_info, shape_error |-> s.shape_error] :
        g \in Graphs(max), r \in Registries, o \in RequestLists, s \in ShapeTables}

None == [some |-> FALSE, names |-> <<>>]
Some(names) == [some |-> TRUE, names |-> names]

---------------------------------------------------------------------------
(* NodeDefinition (ir.rs:38-44) and Node (ir.rs:54-57). *)

NoProto == [input |-> <<>>, output |-> <<>>]

OperatorDef(proto) == [kind |-> "Operator", name |-> "", proto |-> proto, names |-> <<>>]
TensorDef(name) == [kind |-> "Tensor", name |-> name, proto |-> NoProto, names |-> <<>>]
InputDef(name) == [kind |-> "Input", name |-> name, proto |-> NoProto, names |-> <<>>]
OutputsDef(names) == [kind |-> "Outputs", name |-> "", proto |-> NoProto, names |-> names]
MISSING_OPTIONAL_INPUT == [kind |-> "Missing", name |-> "", proto |-> NoProto, names |-> <<>>]

\* NodeDefinition::get_name
GetName(def) ==
    CASE def.kind = "Operator" -> def.proto.output[1]
      [] def.kind = "Tensor" -> def.name
      [] def.kind = "Input" -> def.name
      [] def.kind = "Outputs" -> " "
      [] OTHER -> ""

\* NodeProto::unique_name
UniqueName(node) == node.output[1]

\* Node::new
NewNode(variant) == [definition |-> variant, inputs |-> <<>>]

\* position reporting the first slot for any name that occurs
PositionFirstSlot(s, x) == IF \E k \in DOMAIN s : s[k] = x THEN 1 ELSE 0

\* Iterator::position, 0 for None and k + 1 for Some(k)
Position(s, x) ==
    IF \E k \in DOMAIN s : s[k] = x
    THEN CHOOSE k \in DOMAIN s : s[k] = x /\ \A j \in 1..(k - 1) : s[j] # x
    ELSE 0

\* HashMap::insert
Insert(map, key, value) ==
    [x \in DOMAIN map \cup {key} |-> IF x = key THEN value ELSE map[x]]

EmptyMap == [x \in {} |-> 0]

(* Results of from_node / from_model: Ok(handle) or Err(IrError). *)
NoResult == [status |-> "none", root |-> 0, variant |-> "", arg |-> <<>>]
Ok(root) == [status |-> "ok", root |-> root, variant |-> "", arg |-> <<>>]
Err(variant, arg) == [status |-> "err", root |-> 0, variant |-> variant, arg |-> arg]

---------------------------------------------------------------------------
(* Node::is_dynamic and Node::is_constant. *)

\* is_dynamic forgetting the Input variant
IsDynamicOperatorOnly(n) == n.definition.kind = "Operator"

IsDynamic(n) == n.definition.kind \in {"Operator", "Input"}

RECURSIVE IsConstant(_, _)
IsConstant(hp, id) ==
    \/ ~IsDynamic(hp[id])
    \/ /\ hp[id].definition.kind = "Operator"
       /\ \A k \in DOMAIN hp[id].inputs : IsConstant(hp, hp[id].inputs[k].source_node)

---------------------------------------------------------------------------
(* OperatorDefinition::from: the index of the first declared output that    *)
(* has no shape (its error is OutputNodeNotFound of that name), 0 when      *)
(* every output has one.                                                    *)
FirstUnshaped(node, shapes) ==
    IF \E k \in DOMAIN node.output : node.output[k] \notin shapes
    THEN CHOOSE k \in DOMAIN node.output :
            /\ node.output[k] \notin shapes
            /\ \A j \in 1..(k - 1) : node.output[j] \in shapes
    ELSE 0

---------------------------------------------------------------------------
(* Node::from_node, with the memo map and the heap threaded through.        *)

\* the memo lookup never hitting
AlreadyTranslatedNever(memo, node_name) == FALSE

\* ir.rs:130 "Did we already translate this node before?"
AlreadyTranslated(memo, node_name) == node_name \in DOMAIN memo

Built(id, memo, hp) ==
    [ok |-> TRUE, node |-> id, variant |-> "", arg |-> <<>>, memo |-> memo, heap |-> hp]
Failed(variant, arg, memo, hp) ==
    [ok |-> FALSE, node |-> 0, variant |-> variant, arg |-> arg, memo |-> memo, heap |-> hp]

\* the one value of a singleton: in LET r == e IN ..., written
\* Only({... : r \in {e}}), e is evaluated once however often r is used
Only(S) == CHOOSE x \in S : TRUE

RECURSIVE FromNode(_, _, _, _, _)
RECURSIVE CollectInputs(_, _, _, _, _, _)

\* the closure of ir.rs:138-183, for one input name
ResolveInput(input_name, shapes, defs, memo, hp) ==
    LET source_node_definition ==
            IF input_name \in DOMAIN defs THEN defs[input_name]
            ELSE MISSING_OPTIONAL_INPUT
    IN  IF source_node_definition.kind = "Operator"
        THEN LET pos == Position(source_node_definition.proto.output, input_name)
             IN  Only({IF ~r.ok THEN [r EXCEPT !.node = 0] @@ [output_index |-> 0]
                       ELSE IF pos = 0
                       THEN Failed("OutputNodeNotFound", <<"from_node ", input_name>>,
                                   r.memo, r.heap) @@ [output_index |-> 0]
                       ELSE r @@ [output_index |-> pos - 1] :
                       r \in {FromNode(source_node_definition.proto, shapes, defs,
                                       memo, hp)}})
        ELSE LET source_name == GetName(source_node_definition)
             IN  IF source_name \in DOMAIN memo
                 THEN Built(memo[source_name], memo, hp) @@ [output_index |-> 0]
                 ELSE Built(Len(hp) + 1,
                            Insert(memo, source_name, Len(hp) + 1),
                            Append(hp, NewNode(source_node_definition)))
                      @@ [output_index |-> 0]

\* ir.rs:135-184: map the closure over the inputs from the j-th on, stopping
\* at the first error (collect into Result)
CollectInputs(node, j, shapes, defs, memo, hp) ==
    IF j > Len(node.input)
    THEN [ok |-> TRUE, edges |-> <<>>, variant |-> "", arg |-> <<>>,
          memo |-> memo, heap |-> hp]
    ELSE Only({IF ~r.ok
               THEN [ok |-> FALSE, edges |-> <<>>, variant |-> r.variant, arg |-> r.arg,
                     memo |-> r.memo, heap |-> r.heap]
               ELSE LET edge == [source_node |-> r.node, output_index |-> r.output_index]
                    IN  Only({[rest EXCEPT !.edges = <<edge>> \o rest.edges] :
                              rest \in {CollectInputs(node, j + 1, shapes, defs,
                                                      r.memo, r.heap)}}) :
               r \in {ResolveInput(node.input[j], shapes, defs, memo, hp)}})

FromNode(node, shapes, defs, memo, hp) ==
    LET node_name == UniqueName(node)
    IN  IF AlreadyTranslated(memo, node_name)
        THEN Built(memo[node_name], memo, hp)
        ELSE LET unshaped == FirstUnshaped(node, shapes)
             IN  Only({IF unshaped # 0
                       THEN Failed("OutputNodeNotFound", <<node.output[unshaped]>>,
                                   ins.memo, ins.heap)
                       ELSE IF ~ins.ok
                       THEN Failed(ins.variant, ins.arg, ins.memo, ins.heap)
                       ELSE LET translated == Len(ins.heap) + 1
                            IN  Built(translated,
                                      Insert(ins.memo, UniqueName(node), translated),
                                      Append(ins.heap,
                                             [definition |-> OperatorDef(node),
                                              inputs |-> ins.edges])) :
                       ins \in {CollectInputs(node, 1, shapes, defs, memo, hp)}})

---------------------------------------------------------------------------
(* Node::from_model. *)

\* ir.rs:203-213: the names that get a shape (value_info, then the graph
\* outputs with a non-empty name)
CollectValueShapes(m) == m.value_info \cup {n \in Range(m.output) : n # ""}

\* ir.rs:217-227: the first operator record, in list order, one of whose
\* outputs has no shape; 0 when there is none
FirstUnshapedNode(m, shapes) ==
    IF \E k \in DOMAIN m.node : FirstUnshaped(m.node[k], shapes) # 0
    THEN CHOOSE k \in DOMAIN m.node :
            /\ FirstUnshaped(m.node[k], shapes) # 0
            /\ \A j \in 1..(k - 1) : FirstUnshaped(m.node[j], shapes) = 0
    ELSE 0

\* the declared inputs registered last, over the producers
NodeDefinitionsInputsLast(m) ==
    LET declared == {n \in UNION {Range(m.node[k].output) : k \in DOMAIN m.node} : n # ""}
        last(n) == CHOOSE k \in DOMAIN m.node :
                      /\ n \in Range(m.node[k].output)
                      /\ \A j \in DOMAIN m.node : j > k => n \notin Range(m.node[j].output)
    IN  [n \in declared \cup m.initializer \cup m.input |->
            IF n \in m.input THEN InputDef(n)
            ELSE IF n \in m.initializer THEN TensorDef(n)
            ELSE OperatorDef(m.node[last(n)])]

\* ir.rs:216-258: operator outputs first (a later record overwrites an
\* earlier one), then the initializers (overwriting), then the declared
\* inputs whose name is not yet defined
NodeDefinitionsByOutput(m) ==
    LET declared == {n \in UNION {Range(m.node[k].output) : k \in DOMAIN m.node} : n # ""}
        last(n) == CHOOSE k \in DOMAIN m.node :
                      /\ n \in Range(m.node[k].output)
                      /\ \A j \in DOMAIN m.node : j > k => n \notin Range(m.node[j].output)
    IN  [n \in declared \cup m.initializer \cup m.input |->
            IF n \in m.initializer THEN TensorDef(n)
            ELSE IF n \in declared THEN OperatorDef(m.node[last(n)])
            ELSE InputDef(n)]

\* the explicit list ignored
OutputNamesModelOnly(m, outs) == m.output

\* ir.rs:237-245
OutputNames(m, outs) == IF outs.some THEN outs.names ELSE m.output

\* ir.rs:265-270: the first operator record declaring output_name, 0 for None
FindOutputNode(m, output_name) ==
    IF \E k \in DOMAIN m.node : output_name \in Range(m.node[k].output)
    THEN CHOOSE k \in DOMAIN m.node :
            /\ output_name \in Range(m.node[k].output)
            /\ \A j \in 1..(k - 1) : output_name \notin Range(m.node[j].output)
    ELSE 0

\* ir.rs:203-260: shape table, definitions, requested names, empty memo map
FromModelBegin ==
    /\ pc = "start"
    /\ LET shapes == CollectValueShapes(model)
           bad == FirstUnshapedNode(model, shapes)
       IN  IF model.shape_error
           THEN /\ result' = Err("Type", <<>>)
                /\ pc' = "done"
                /\ UNCHANGED <<value_shapes, node_definitions_by_output, output_names>>
           ELSE IF bad # 0
           THEN /\ result' = Err("OutputNodeNotFound",
                                 <<model.node[bad].output[FirstUnshaped(model.node[bad], shapes)]>>)
                /\ pc' = "done"
                /\ value_shapes' = shapes
                /\ UNCHANGED <<node_definitions_by_output, output_names>>
           ELSE /\ value_shapes' = shapes
                /\ node_definitions_by_output' = NodeDefinitionsByOutput(model)
                /\ output_names' = OutputNames(model, outputs)
                /\ pc' = "resolving"
                /\ UNCHANGED result
    /\ UNCHANGED <<model, outputs, nodes_by_name, heap, output_nodes, call_node, compilerVars>>

\* ir.rs:262-290: the closure, for the next requested output name
ResolveOutput ==
    /\ pc = "resolving"
    /\ Len(output_nodes) < Len(output_names)
    /\ LET output_name == output_names[Len(output_nodes) + 1]
           found == FindOutputNode(model, output_name)
       IN  IF found = 0
           THEN /\ result' = Err("OutputNodeNotFound", <<output_name>>)
                /\ pc' = "done"
                /\ UNCHANGED <<nodes_by_name, heap, output_nodes>>
           ELSE \E r \in {FromNode(model.node[found], value_shapes,
                                    node_definitions_by_output, nodes_by_name, heap)} :
                LET pos == Position(model.node[found].output, output_name)
                IN  /\ nodes_by_name' = r.memo
                    /\ heap' = r.heap
                    /\ IF ~r.ok
                       THEN /\ result' = Err(r.variant, r.arg)
                            /\ pc' = "done"
                            /\ UNCHANGED output_nodes
                       ELSE IF pos = 0
                       THEN /\ result' = Err("OutputNodeNotFound", <<output_name>>)
                            /\ pc' = "done"
                            /\ UNCHANGED output_nodes
                       ELSE /\ output_nodes' =
                                  Append(output_nodes,
                                         [source_node |-> r.node, output_index |-> pos - 1])
                            /\ UNCHANGED <<result, pc>>
    /\ UNCHANGED <<model, outputs, value_shapes, node_definitions_by_output, output_names,
                   call_node, compilerVars>>

\* the root keeping only the edge of the first requested output
AssembleFirstEdge ==
    /\ pc = "resolving"
    /\ Len(output_nodes) = Len(output_names)
    /\ heap' = Append(heap, [definition |-> OutputsDef(output_names),
                              inputs |-> IF output_nodes = <<>> THEN <<>>
                                         ELSE <<output_nodes[1]>>])
    /\ result' = Ok(Len(heap) + 1)
    /\ pc' = "done"
    /\ UNCHANGED <<model, outputs, value_shapes, node_definitions_by_output,
                   output_names, nodes_by_name, output_nodes, call_node, compilerVars>>

\* ir.rs:292-297: the Outputs root
Assemble ==
    /\ pc = "resolving"
    /\ Len(output_nodes) = Len(output_names)
    /\ heap' = Append(heap, [definition |-> OutputsDef(output_names),
                              inputs |-> output_nodes])
    /\ result' = Ok(Len(heap) + 1)
    /\ pc' = "done"
    /\ UNCHANGED <<model, outputs, value_shapes, node_definitions_by_output,
                   output_names, nodes_by_name, output_nodes, call_node, compilerVars>>

\* the variables of the other entry points, while they are not in use
NoModel ==
    [node |-> <<>>, initializer |-> {}, input |-> {}, output |-> <<>>,
     value_info |-> {}, shape_error |-> FALSE]
NoOp == [node |-> [op_type |-> ""]]

NoContext ==
    [input |-> <<>>, output |-> <<>>, op_type |-> <<>>, pad |-> <<>>, conv_relu |-> FALSE]

NotCompiled ==
    [status |-> "none", why |-> "", template |-> "", context |-> NoContext,
     x |-> 0, y |-> 0, z |-> 0]

IrIdle ==
    /\ model = NoModel
    /\ outputs = None
    /\ pc = "idle"
    /\ value_shapes = {}
    /\ node_definitions_by_output = EmptyMap
    /\ output_names = <<>>
    /\ nodes_by_name = EmptyMap
    /\ heap = <<>>
    /\ output_nodes = <<>>
    /\ result = NoResult
    /\ call_node = NoProto

CompilerIdle ==
    /\ op = NoOp
    /\ compiled = NotCompiled

Init ==
    /\ CompilerIdle
    /\ call_node = NoProto
    /\ model \in Models(MaxOps)
    /\ outputs \in IF model.output = <<>>
                    THEN {None} \cup {Some(l) : l \in RequestLists}
                    ELSE {None}
    /\ pc = "start"
    /\ value_shapes = {}
    /\ node_definitions_by_output = EmptyMap
    /\ output_names = <<>>
    /\ nodes_by_name = EmptyMap
    /\ heap = <<>>
    /\ output_nodes = <<>>
    /\ result = NoResult

Next == FromModelBegin \/ ResolveOutput \/ Assemble

Spec == Init /\ [][Next]_vars

(* Models in which an initializer may carry the name of an output of the    *)
(* first operator, and a declared input the name of its first output.       *)
CollidingRegistries ==
    {[initializer |-> {ini}, input |-> inp] :
        ini \in {"t", FirstOut[1], SecondOut[1]}, inp \in {{"i"}, {"i", FirstOut[1]}}}

CollidingModels(max) ==
    {[node |-> g, initializer |-> r.initializer, input |-> r.input, output |-> o,
      value_info |-> AllValueNames, shape_error |-> FALSE] :
        g \in Graphs(max), r \in CollidingRegistries, o \in RequestLists}

InitColliding ==
    /\ CompilerIdle
    /\ call_node = NoProto
    /\ model \in CollidingModels(MaxOps)
    /\ outputs = None
    /\ pc = "start"
    /\ value_shapes = {}
    /\ node_definitions_by_output = EmptyMap
    /\ output_names = <<>>
    /\ nodes_by_name = EmptyMap
    /\ heap = <<>>
    /\ output_nodes = <<>>
    /\ result = NoResult

SpecColliding == InitColliding /\ [][Next]_vars

\* Every graph of up to max operators, with the initializer t and the input
\* i, every list of requested names as the model's own outputs, the shape
\* table complete or lacking o1.
TerminatingModels(max) ==
    {[node |-> g, initializer |-> {"t"}, input |-> {"i"}, output |-> o,
      value_info |-> v, shape_error |-> FALSE] :
        g \in Graphs(max), o \in RequestLists,
        v \in {AllValueNames, AllValueNames \ {FirstOut[1]}}}

\* a caller enters from_model with the model's own outputs requested
CallFromModel ==
    /\ pc = "idle"
    /\ \E m \in TerminatingModels(MaxOps) : model' = m
    /\ pc' = "start"
    /\ UNCHANGED <<outputs, value_shapes, node_definitions_by_output, output_names,
                   nodes_by_name, heap, output_nodes, result, call_node, compilerVars>>

InitTerminating == IrIdle /\ CompilerIdle

NextTerminating == CallFromModel \/ FromModelBegin \/ ResolveOutput \/ Assemble

\* from_model is one sequential call: once entered it keeps running (the
\* caller is under no obligation to call)
SpecTerminating == InitTerminating /\ [][NextTerminating]_vars /\ WF_vars(Next)

---------------------------------------------------------------------------
(* Node::from_node called on its own: it is a public function, and its      *)
(* caller supplies the definitions map.  The map may bind a name to an      *)
(* operator record that does not declare it, which from_model never does.   *)

Producers ==
    {[input |-> <<"t">>, output |-> <<"o1">>],
     [input |-> <<>>, output |-> <<"o1", "p1">>]}

CallerNames == {"o1", "p1", "q"}

CallerDefinitions ==
    {[n \in CallerNames \cup {"t"} |-> IF n = "t" THEN td ELSE f[n]] :
        td \in {MISSING_OPTIONAL_INPUT, TensorDef("t"), InputDef("t")},
        f \in [CallerNames ->
                 {MISSING_OPTIONAL_INPUT} \cup {OperatorDef(p) : p \in Producers}]}

CallerNodes ==
    {[input |-> ins, output |-> <<"o2">>] :
        ins \in SeqsUpTo(CallerNames \cup {"t"}, MaxIn)}

CallerShapes == {{"o1", "p1", "o2"}, {"p1", "o2"}}

InitFromNode ==
    /\ CompilerIdle
    /\ model = NoModel
    /\ outputs = None
    /\ pc = "call"
    /\ call_node \in CallerNodes
    /\ value_shapes \in CallerShapes
    /\ node_definitions_by_output \in CallerDefinitions
    /\ output_names = <<>>
    /\ nodes_by_name = EmptyMap
    /\ heap = <<>>
    /\ output_nodes = <<>>
    /\ result = NoResult

\* ir.rs:122-195, one call with an empty memo map
CallFromNode ==
    /\ pc = "call"
    /\ \E r \in {FromNode(call_node, value_shapes, node_definitions_by_output,
                            nodes_by_name, heap)} :
           /\ nodes_by_name' = r.memo
           /\ heap' = r.heap
           /\ result' = IF r.ok THEN Ok(r.node) ELSE Err(r.variant, r.arg)
    /\ pc' = "done"
    /\ UNCHANGED <<model, outputs, value_shapes, node_definitions_by_output,
                   output_names, output_nodes, call_node, compilerVars>>

NextFromNode == CallFromNode

SpecFromNode == InitFromNode /\ [][NextFromNode]_vars

---------------------------------------------------------------------------
(* compile (src/compiler.rs).  A tensor name is the sequence of its         *)
(* characters; dims_infos is a function from names to dimension lists.      *)

\* i64 `/` and `%`: the quotient truncates toward zero and the remainder
\* takes the sign of the dividend
Abs(v) == IF v < 0 THEN -v ELSE v
Sign(v) == IF v < 0 THEN -1 ELSE 1
I64Div(a, b) == Sign(a) * Sign(b) * (Abs(a) \div Abs(b))
\* the remainder that is never negative
I64RemEuclid(a, b) == a % Abs(b)

I64Rem(a, b) == a - b * I64Div(a, b)

\* `as u32` / `as _` of an i64: a value in 0 .. 2^31 - 1 is kept, a negative
\* one wraps to 2^32 + v (the lengths below are products of positive
\* dimensions and never negative)
AsU32(v) == IF v >= 0 THEN v ELSE v + 65536 * 65536

\* crate::utils::ceil
Ceil(num, div) == I64Div(num, div) + (IF I64Rem(num, div) # 0 THEN 1 ELSE 0)

\* crate::utils::get_attribute with Some(default)
GetAttribute(attribute, default, n) ==
    IF attribute \in DOMAIN n.attribute THEN n.attribute[attribute] ELSE default

\* crate::utils::get_attribute with None: the attribute must be present
HasAttribute(attribute, n) == attribute \in DOMAIN n.attribute

RECURSIVE Product(_)
Product(dims) == IF dims = <<>> THEN 1 ELSE Head(dims) * Product(Tail(dims))

EscapedButSlash == {"(", ")", ",", "\"", ".", ";", ":", "'"}

\* compiler.rs:42 and :47, the characters str::replace deletes
Escaped == {"(", ")", ",", "\"", ".", ";", ":", "'", "/"}

\* String::replace(&[..][..], ""): every match of the pattern is deleted
Sanitize(name) == SelectSeq(name, LAMBDA c : c \notin Escaped)

SanitizeAll(list) == [k \in DOMAIN list |-> Sanitize(list[k])]

MapOps ==
    {"Abs", "Acos", "Asin", "Atan", "Ceil", "Cos", "Cosh", "Exp", "Floor", "Log",
     "Round", "Sign", "Sin", "Sinh", "Sqrt", "Tan", "Tanh"}
CopyOps == {"Reshape", "Dropout", "Flatten", "Squeeze", "Softmax"}
ArithmeticOps ==
    {"Add", "And", "Div", "Equal", "Greater", "GreaterOrEqual", "Less", "LessOrEqual",
     "Mod", "Mul", "Or", "Sub"}
AlphaActivationOps == {"Celu", "Elu"}
PoolOps == {"MaxPool", "AveragePool"}
ConvOps == {"Conv", "ConvRelu"}
GemmOps == {"Gemm", "MatMul"}
ActivationOps == {"Relu", "Sigmoid", "Softsign", "Softplus", "Clip"}

\* compiler.rs:89-103
ArithmeticSymbol(op_type) ==
    CASE op_type = "Add" -> "+"
      [] op_type = "And" -> "&"
      [] op_type = "Div" -> "/"
      [] op_type = "Equal" -> "=="
      [] op_type = "Greater" -> ">"
      [] op_type = "GreaterOrEqual" -> ">="
      [] op_type = "Less" -> "<"
      [] op_type = "LessOrEqual" -> "<="
      [] op_type = "Mod" -> "%"
      [] op_type = "Mul" -> "*"
      [] op_type = "Or" -> "|"
      [] OTHER -> "-"

SlackUndilated(strides, kernel_shape, dilations, a) ==
    -strides[a] + ((kernel_shape[a] - 1) + 1)

\* the arithmetic shared by the SAME_UPPER and SAME_LOWER arms
Slack(strides, kernel_shape, dilations, a) ==
    -strides[a] + ((kernel_shape[a] - 1) * dilations[a] + 1)

\* compiler.rs:152-183 (MaxPool / AveragePool); <<>> stands for unimplemented!()
PoolPads(auto_pad, pads, strides, kernel_shape, dilations) ==
    LET slack_0 == Slack(strides, kernel_shape, dilations, 1)
        slack_0_div_2 == I64Div(slack_0, 2)
        slack_rest_0 == I64Rem(slack_0, 2)
        slack_1 == Slack(strides, kernel_shape, dilations, 2)
        slack_1_div_2 == I64Div(slack_1, 2)
        slack_rest_1 == I64Rem(slack_1, 2)
    IN  CASE auto_pad = "NOTSET" -> [ok |-> TRUE, pads |-> pads]
          [] auto_pad = "SAME_UPPER" ->
                [ok |-> TRUE,
                 pads |-> <<slack_0_div_2, slack_1_div_2,
                            slack_0_div_2 + slack_rest_0, slack_1_div_2 + slack_rest_1>>]
          [] auto_pad = "SAME_LOWER" ->
                [ok |-> TRUE,
                 pads |-> <<slack_0_div_2 + slack_rest_0, slack_1_div_2 + slack_rest_1,
                            slack_0_div_2, slack_1_div_2>>]
          [] OTHER -> [ok |-> FALSE, pads |-> <<>>]

\* compiler.rs:233-264 (Conv / ConvRelu)
ConvPads(auto_pad, pads, strides, kernel_shape, dilations) ==
    LET slack_0 == Slack(strides, kernel_shape, dilations, 1)
        slack_0_div_2 == I64Div(slack_0, 2)
        slack_rest_0 == I64Rem(slack_0, 2)
        slack_1 == Slack(strides, kernel_shape, dilations, 2)
        slack_1_div_2 == I64Div(slack_1, 2)
        slack_rest_1 == I64Rem(slack_1, 2)
    IN  CASE auto_pad = "NOTSET" -> [ok |-> TRUE, pads |-> pads]
          [] auto_pad = "SAME_UPPER" ->
                [ok |-> TRUE,
                 pads |-> <<slack_0_div_2, slack_1_div_2,
                            slack_0_div_2 + slack_rest_0, slack_1_div_2 + slack_rest_1>>]
          [] auto_pad = "SAME_LOWER" ->
                [ok |-> TRUE,
                 pads |-> <<slack_0_div_2 + slack_rest_0, slack_1_div_2 + slack_rest_1,
                            slack_0_div_2, slack_1_div_2>>]
          [] OTHER -> [ok |-> FALSE, pads |-> <<>>]

ConvKernelAnyChannels(strides, kernel_shape, dilations, pads, input_dims, output_dims, len) ==
    IF /\ strides = <<1, 1>>
       /\ kernel_shape = <<1, 1>>
       /\ dilations = <<1, 1>> /\ pads = <<0, 0, 0, 0>>
    THEN [template |-> "pool/conv_kernel_1.wgsl", x |-> AsU32(Ceil(len, 1024))]
    ELSE IF /\ strides = <<1, 1>>
            /\ kernel_shape = <<3, 3>>
            /\ dilations = <<1, 1>>
    THEN [template |-> "pool/conv_kernel_3.wgsl", x |-> AsU32(Ceil(len, 1024))]
    ELSE [template |-> "pool/conv.wgsl", x |-> AsU32(Ceil(len, 256))]

\* compiler.rs:300-330: template and dispatch x of a convolution
ConvKernel(strides, kernel_shape, dilations, pads, input_dims, output_dims, len) ==
    IF /\ strides = <<1, 1>>
       /\ kernel_shape = <<1, 1>>
       /\ dilations = <<1, 1>> /\ pads = <<0, 0, 0, 0>>
       /\ I64Rem(input_dims[2], 16) = 0
       /\ I64Rem(output_dims[2], 4) = 0
    THEN [template |-> "pool/conv_kernel_1.wgsl", x |-> AsU32(Ceil(len, 1024))]
    ELSE IF /\ strides = <<1, 1>>
            /\ kernel_shape = <<3, 3>>
            /\ dilations = <<1, 1>>
            /\ I64Rem(output_dims[2], 4) = 0
    THEN [template |-> "pool/conv_kernel_3.wgsl", x |-> AsU32(Ceil(len, 1024))]
    ELSE [template |-> "pool/conv.wgsl", x |-> AsU32(Ceil(len, 256))]

\* both divisions rounded up
GemmKernelRoundedUp(input_dims, output_dims) ==
    LET right_columns == input_dims[2][2]
    IN  IF input_dims[1][1] = 1
        THEN [template |-> "matrix/gemm_1.wgsl", x |-> AsU32(output_dims[1][2])]
        ELSE [template |-> "matrix/gemm.wgsl",
              x |-> AsU32(Ceil(Ceil(input_dims[1][1], 4) * right_columns, 4))]

\* compiler.rs:343-349
GemmKernel(input_dims, output_dims) ==
    LET right_columns == input_dims[2][2]
    IN  IF input_dims[1][1] = 1
        THEN [template |-> "matrix/gemm_1.wgsl", x |-> AsU32(output_dims[1][2])]
        ELSE [template |-> "matrix/gemm.wgsl",
              x |-> AsU32(I64Div(I64Div(input_dims[1][1], 4) * right_columns, 4))]

(* What compile returns: the rendered shader, held as the template and the  *)
(* context it was rendered from, with the dispatch size; or a panic.        *)
Kernel(template, context, x, y, z) ==
    [status |-> "ok", why |-> "", template |-> template, context |-> context,
     x |-> x, y |-> y, z |-> z]

FallBackToActivation(why) == Kernel("endomorphism/activation.wgsl", NoContext, 1, 1, 1)

\* panic!, todo!, unimplemented! and expect: compile does not return
Panic(why) ==
    [status |-> "panic", why |-> why, template |-> "", context |-> NoContext,
     x |-> 0, y |-> 0, z |-> 0]

MapDispatchRoundedUp(len) == AsU32(Ceil(len, 4))

\* compiler.rs:73, the x of the element-wise map family
MapDispatch(len) == AsU32(I64Div(len, 4))

\* compiler.rs:68-364, the match on the operator type: the template and the
\* dispatch size, or the panic
SelectKernel(n, context, input_dims, output_dims, output_lengths) ==
    LET op_type == n.op_type
        spatial == [auto_pad |-> GetAttribute("auto_pad", "NOTSET", n),
                    dilations |-> GetAttribute("dilations", <<1, 1>>, n),
                    strides |-> GetAttribute("strides", <<1, 1>>, n),
                    pads |-> GetAttribute("pads", <<0, 0, 0, 0>>, n)]
    IN  CASE op_type \in MapOps ->
                Kernel("endomorphism/map.wgsl", context,
                       MapDispatch(output_lengths[1]), 1, 1)
          [] op_type \in CopyOps ->
                Kernel("endomorphism/copy.wgsl", context,
                       AsU32(I64Div(output_lengths[1], 16)), 1, 1)
          [] op_type \in ArithmeticOps ->
                Kernel("endomorphism/arithmetic.wgsl",
                       [context EXCEPT !.op_type = <<ArithmeticSymbol(op_type)>>],
                       AsU32(I64Div(output_lengths[1], 4)), 1, 1)
          [] op_type = "BatchNormalization" -> Panic("not yet implemented")
          [] op_type \in AlphaActivationOps ->
                Kernel("endomorphism/activation.wgsl", context,
                       AsU32(I64Div(output_lengths[1], 4)), 1, 1)
          [] op_type = "Concat" ->
                Kernel("matrix/concat.wgsl", context,
                       AsU32(Ceil(output_lengths[1], 256)), 1, 1)
          [] op_type \in PoolOps ->
                IF ~HasAttribute("kernel_shape", n) THEN Panic("attribute not found")
                ELSE LET kernel_shape == n.attribute["kernel_shape"]
                         pads == PoolPads(spatial.auto_pad, spatial.pads, spatial.strides,
                                          kernel_shape, spatial.dilations)
                     IN  IF ~pads.ok THEN Panic("not implemented")
                         ELSE Kernel("pool/aggregate.wgsl",
                                     [context EXCEPT !.pad = pads.pads],
                                     AsU32(Ceil(output_lengths[1], 1024)), 1, 1)
          [] op_type \in ConvOps ->
                IF ~HasAttribute("kernel_shape", n) THEN Panic("attribute not found")
                ELSE LET kernel_shape == n.attribute["kernel_shape"]
                         pads == ConvPads(spatial.auto_pad, spatial.pads, spatial.strides,
                                          kernel_shape, spatial.dilations)
                         k == ConvKernel(spatial.strides, kernel_shape, spatial.dilations,
                                         pads.pads, input_dims[1], output_dims[1],
                                         output_lengths[1])
                     IN  IF ~pads.ok THEN Panic("not implemented")
                         ELSE Kernel(k.template,
                                     [context EXCEPT !.pad = pads.pads,
                                                     !.conv_relu = (op_type = "ConvRelu")],
                                     k.x, 1, 1)
          [] op_type \in GemmOps ->
                LET k == GemmKernel(input_dims, output_dims)
                IN  Kernel(k.template, context, k.x, 1, 1)
          [] op_type \in ActivationOps ->
                Kernel("endomorphism/activation.wgsl", context, 1, 1, 1)
          [] op_type = "Sum" -> Panic("not implemented")
          [] op_type = "Transpose" ->
                Kernel("matrix/transpose.wgsl", context,
                       AsU32(I64Div(output_lengths[1], 4)), 1, 1)
          [] OTHER -> Panic("not implemented")

\* compiler.rs:5-371.  The context keeps the entries that depend on more
\* than a copy of a shape: the sanitized names, the operator type (lower-cased,
\* or the arithmetic symbol), the resolved pads and the fused-relu flag.
CompileNode(n, dims_infos, render_ok) ==
    IF \E k \in DOMAIN n.input : n.input[k] \notin DOMAIN dims_infos
    THEN Panic("not found")
    ELSE IF \E k \in DOMAIN n.output : n.output[k] \notin DOMAIN dims_infos
    THEN Panic("not found")
    ELSE LET input_dims == [k \in DOMAIN n.input |-> dims_infos[n.input[k]]]
             output_dims == [k \in DOMAIN n.output |-> dims_infos[n.output[k]]]
             output_lengths == [k \in DOMAIN output_dims |-> Product(output_dims[k])]
             context == [input |-> SanitizeAll(n.input),
                         output |-> SanitizeAll(n.output),
                         op_type |-> <<"to_lowercase", n.op_type>>,
                         pad |-> <<>>,
                         conv_relu |-> FALSE]
             selected == SelectKernel(n, context, input_dims, output_dims, output_lengths)
         IN  IF selected.status = "panic" THEN selected
             ELSE IF ~render_ok THEN Panic("failed to render shader")
             ELSE selected

---------------------------------------------------------------------------
(* Operator records handed to compile. *)

MaxRank == 2
MaxKernel == 3
MaxStride == 2
MaxDilation == 2
MaxNameLen == 3

DimValues == {1, 3, 4, 10, 16, 64, 100}

Shapes == UNION {[1..r -> DimValues] : r \in 1..MaxRank}

X == <<"x">>
W == <<"w">>
Y == <<"y", ":", "0">>

Without(f, name) == [n \in DOMAIN f \ {name} |-> f[n]]

\* operator types of the element-wise and matrix families, the two that
\* are not implemented, and one that compile does not know
PlainOps ==
    MapOps \cup CopyOps \cup ArithmeticOps \cup AlphaActivationOps \cup ActivationOps
    \cup {"Concat", "Transpose", "Sum", "BatchNormalization", "Gather"}

OpNode(op_type, input, output, attribute) ==
    [op_type |-> op_type, input |-> input, output |-> output, attribute |-> attribute]

\* one shape for every tensor; the table may lack an input or the output
PlainInput(o) ==
    \E t \in PlainOps, s \in Shapes, lacking \in {<<>>, W, Y} :
        o = [node |-> OpNode(t, <<X, W>>, <<Y>>, EmptyMap),
             dims_infos |-> Without([n \in {X, W, Y} |-> s], lacking)]

GemmInput(o) ==
    \E t \in GemmOps, m \in {1, 2, 3, 4, 16}, k \in {1, 4}, n \in {1, 4, 16} :
        o = [node |-> OpNode(t, <<X, W>>, <<Y>>, EmptyMap),
             dims_infos |-> (X :> <<m, k>>) @@ (W :> <<k, n>>) @@ (Y :> <<m, n>>)]

Pairs(max) == [1..2 -> 1..max]

Absent == {EmptyMap}

\* input and output channels of the NxCxHxW tensors: every pair for a
\* convolution, whose kernel depends on them, one for a pooling
Channels(op_type) ==
    IF op_type \in ConvOps THEN {<<16, 4>>, <<15, 4>>, <<16, 6>>} ELSE {<<16, 4>>}

SpatialInput(o) ==
    \E t \in PoolOps \cup ConvOps,
       a \in Absent \cup
             {"auto_pad" :> v : v \in {"NOTSET", "SAME_UPPER", "SAME_LOWER", "VALID"}},
       k \in Absent \cup {"kernel_shape" :> v : v \in Pairs(MaxKernel)},
       st \in Absent \cup {"strides" :> v : v \in Pairs(MaxStride)},
       d \in Absent \cup {"dilations" :> v : v \in Pairs(MaxDilation)},
       p \in Absent \cup {"pads" :> <<0, 1, 2, 3>>} :
        \E c \in Channels(t) :
            o = [node |-> OpNode(t, <<X, W>>, <<Y>>, a @@ k @@ st @@ d @@ p),
                 dims_infos |-> (X :> <<1, c[1], 16, 16>>) @@ (W :> <<c[2], c[1], 1, 1>>)
                                @@ (Y :> <<1, c[2], 16, 16>>)]

\* tensor names over the escaped characters and three others
Alphabet == Escaped \cup {"a", "b", "_"}

Example == <<"a", ".", "b", "/", "c">>

Names == UNION {[1..l -> Alphabet] : l \in 0..MaxNameLen} \cup {Example}

NamedInput(o) ==
    \/ \E i \in Names :
          o = [node |-> OpNode("Relu", <<i>>, <<Y>>, EmptyMap),
               dims_infos |-> [n \in {i, Y} |-> <<4>>]]
    \/ \E out \in Names :
          o = [node |-> OpNode("Relu", <<X>>, <<out>>, EmptyMap),
               dims_infos |-> [n \in {X, out} |-> <<4>>]]

CompileInput(o) == PlainInput(o) \/ GemmInput(o) \/ SpatialInput(o) \/ NamedInput(o)

InitCompile ==
    /\ IrIdle
    /\ CompileInput(op)
    /\ compiled = NotCompiled

\* one call of compile; the template renderer may reject the template
Compile ==
    /\ compiled.status = "none"
    /\ \E render_ok \in BOOLEAN :
          compiled' = CompileNode(op.node, op.dims_infos, render_ok)
    /\ UNCHANGED <<op, irVars>>

NextCompile == Compile

SpecCompile == InitCompile /\ [][NextCompile]_vars

---------------------------------------------------------------------------
(* Vocabulary of the properties of the graph builder. *)

\* the names the caller asked for: the explicit list, else the model's outputs
Requested == IF outputs.some THEN outputs.names ELSE model.output

DeclaredBy(k, name) == \E j \in DOMAIN model.node[k].output : model.node[k].output[j] = name

Undeclared(name) == \A k \in DOMAIN model.node : ~DeclaredBy(k, name)

Kind(hp, id) == hp[id].definition.kind

Sources(hp, id) == {hp[id].inputs[k].source_node : k \in DOMAIN hp[id].inputs}

\* b is a or one of a's transitive inputs
RECURSIVE Reaches(_, _, _)
Reaches(hp, a, b) == a = b \/ \E s \in Sources(hp, a) : Reaches(hp, s, b)

\* an Input node occurs among the transitive inputs of id
RECURSIVE InputBelow(_, _)
InputBelow(hp, id) == \E s \in Sources(hp, id) : Kind(hp, s) = "Input" \/ InputBelow(hp, s)

InputAtOrBelow(hp, id) == Kind(hp, id) = "Input" \/ InputBelow(hp, id)

\* every edge held by a node or by the list of root edges under construction
AllEdges ==
    UNION {Range(heap[id].inputs) : id \in DOMAIN heap} \cup Range(output_nodes)

(* C1: within one build at most one Node exists per unique name; the memo   *)
(* map stores that Node under its name, and every edge, whichever consumer  *)
(* or requested output it was resolved for, holds the stored instance.      *)
C1_TranslatedOnce ==
    /\ \A a, b \in DOMAIN heap :
          GetName(heap[a].definition) = GetName(heap[b].definition) => a = b
    /\ \A n \in DOMAIN nodes_by_name :
          /\ nodes_by_name[n] \in DOMAIN heap
          /\ GetName(heap[nodes_by_name[n]].definition) = n
    /\ \A e \in AllEdges :
          /\ GetName(heap[e.source_node].definition) \in DOMAIN nodes_by_name
          /\ nodes_by_name[GetName(heap[e.source_node].definition)] = e.source_node

\* two different requested outputs were built and both depend on one
\* upstream operator, held by more than one edge
C1_Witness ==
    /\ result.status = "ok"
    /\ Len(output_names) = 2
    /\ output_names[1] # output_names[2]
    /\ \E id \in DOMAIN heap :
          /\ Kind(heap, id) = "Operator"
          /\ Reaches(heap, heap[result.root].inputs[1].source_node, id)
          /\ Reaches(heap, heap[result.root].inputs[2].source_node, id)
          /\ heap[result.root].inputs[1].source_node # heap[result.root].inputs[2].source_node

(* C2 as stated: every node of a built DAG, of any variant and the root     *)
(* included, reports is_constant exactly when no Input node occurs among    *)
(* its transitive inputs (an Input node counting as Input-derived itself).  *)
C2_Original ==
    result.status = "ok" =>
        \A id \in DOMAIN heap : IsConstant(heap, id) = ~InputAtOrBelow(heap, id)

(* C2 amended: every node other than the Outputs root reports is_constant  *)
(* exactly when no Input node occurs among the node and its transitive      *)
(* inputs; the Outputs root reports true whatever it consumes.              *)
C2_IsConstant ==
    \A id \in DOMAIN heap :
        IF Kind(heap, id) = "Outputs"
        THEN IsConstant(heap, id)
        ELSE IsConstant(heap, id) = ~InputAtOrBelow(heap, id)

\* a finished DAG holding a constant operator, an operator fed by an Input,
\* and a root that consumes an Input yet reports is_constant
C2_Witness ==
    /\ result.status = "ok"
    /\ \E a, b \in DOMAIN heap :
          /\ Kind(heap, a) = "Operator" /\ IsConstant(heap, a)
          /\ heap[a].inputs # <<>>
          /\ Kind(heap, b) = "Operator" /\ ~IsConstant(heap, b)
    /\ InputBelow(heap, result.root)
    /\ IsConstant(heap, result.root)

(* C3 as stated: whenever a requested name is declared by no operator       *)
(* record, from_model returns OutputNodeNotFound carrying that name.        *)
C3_Original ==
    pc = "done" =>
        \A k \in DOMAIN Requested :
            Undeclared(Requested[k]) =>
                result = Err("OutputNodeNotFound", <<Requested[k]>>)

FirstUndeclared ==
    CHOOSE k \in DOMAIN Requested :
        /\ Undeclared(Requested[k])
        /\ \A j \in 1..(k - 1) : ~Undeclared(Requested[j])

ShapeTableComplete ==
    /\ ~model.shape_error
    /\ \A k \in DOMAIN model.node :
          Range(model.node[k].output) \subseteq CollectValueShapes(model)

(* C3 amended: when some requested name is declared by no operator record,  *)
(* from_model returns no root node; if the shape table is well-formed and   *)
(* holds a shape for every operator output, the error is OutputNodeNotFound *)
(* carrying the first such name in request order.                           *)
C3_OutputNotFound ==
    (pc = "done" /\ \E k \in DOMAIN Requested : Undeclared(Requested[k])) =>
        /\ result.status = "err"
        /\ ShapeTableComplete =>
              result = Err("OutputNodeNotFound", <<Requested[FirstUndeclared]>>)

\* the name "t" is an initializer, was requested after an output that
\* resolved, and the build ended with OutputNodeNotFound("t")
C3_Witness ==
    /\ pc = "done"
    /\ "t" \in model.initializer
    /\ Len(Requested) = 2
    /\ Requested[2] = "t"
    /\ Len(output_nodes) = 1
    /\ result = Err("OutputNodeNotFound", <<"t">>)

(* C5: on success the root is an Outputs node with one edge per requested   *)
(* name, in request order; edge i holds the Node of the operator record     *)
(* that declares name i, and its output_index is the position of name i in  *)
(* that record's outputs.                                                   *)
C5_RootEdges ==
    result.status = "ok" =>
        LET root == heap[result.root]
        IN  /\ root.definition.kind = "Outputs"
            /\ root.definition.names = Requested
            /\ Len(root.inputs) = Len(Requested)
            /\ \A i \in DOMAIN root.inputs :
                  LET src == heap[root.inputs[i].source_node]
                      idx == root.inputs[i].output_index
                  IN  /\ src.definition.kind = "Operator"
                      /\ \E k \in DOMAIN model.node :
                            /\ DeclaredBy(k, Requested[i])
                            /\ src.definition.proto = model.node[k]
                      /\ idx + 1 \in DOMAIN src.definition.proto.output
                      /\ src.definition.proto.output[idx + 1] = Requested[i]
                      /\ \A j \in 1..idx : src.definition.proto.output[j] # Requested[i]

\* the model's own outputs were used, two of them, one being the second
\* output of its operator
C5_Witness ==
    /\ result.status = "ok"
    /\ ~outputs.some
    /\ Len(heap[result.root].inputs) = 2
    /\ heap[result.root].inputs[1].output_index = 1
    /\ heap[result.root].inputs[2].output_index = 0
    /\ heap[result.root].inputs[1].source_node # heap[result.root].inputs[2].source_node

\* input positions of the called node whose name is bound to an operator
\* record that does not declare it
Unmatched ==
    {j \in DOMAIN call_node.input :
        LET n == call_node.input[j]
        IN  /\ n \in DOMAIN node_definitions_by_output
            /\ node_definitions_by_output[n].kind = "Operator"
            /\ n \notin Range(node_definitions_by_output[n].proto.output)}

(* C4: when an input name resolves to a producer operator that does not     *)
(* declare it (every shape being present), the build fails with             *)
(* InputNodeNotFound carrying the consuming node and the input name.        *)
C4_InputNodeNotFound ==
    (pc = "done" /\ Unmatched # {} /\ {"o1", "p1", "o2"} \subseteq value_shapes) =>
        /\ result.status = "err"
        /\ result.variant = "InputNodeNotFound"
        /\ \E j \in Unmatched :
              result.arg = <<UniqueName(call_node), call_node.input[j]>>

---------------------------------------------------------------------------
(* Vocabulary of the properties of compile. *)

Ended == compiled.status # "none"
Returned == compiled.status = "ok"

OpType == op.node.op_type

\* every tensor of the operator has a shape in the table
DimsKnown == Range(op.node.input) \cup Range(op.node.output) \subseteq DOMAIN op.dims_infos

\* L, the flattened length of output 0
OutputLength == Product(op.dims_infos[op.node.output[1]])

\* the attribute as the operator record carries it, or its documented default
Attribute(name, default) ==
    IF name \in DOMAIN op.node.attribute THEN op.node.attribute[name] ELSE default

DecisionTable ==
    MapOps \cup CopyOps \cup ArithmeticOps \cup AlphaActivationOps \cup ActivationOps
    \cup PoolOps \cup ConvOps \cup GemmOps \cup {"Concat", "Transpose"}

Spatial == OpType \in PoolOps \cup ConvOps

Unsupported ==
    \/ OpType \in {"Sum", "BatchNormalization"}
    \/ OpType \notin DecisionTable
    \/ /\ Spatial
       /\ Attribute("auto_pad", "NOTSET") \notin {"NOTSET", "SAME_UPPER", "SAME_LOWER"}

(* C6: for Sum, BatchNormalization, an operator type outside the decision   *)
(* table, and a pooling or convolution operator whose auto_pad is none of   *)
(* NOTSET, SAME_UPPER, SAME_LOWER, compile does not return: it ends in a    *)
(* failure with no template selected, and when the shapes (and the          *)
(* kernel_shape of a pooling or convolution operator) are present the       *)
(* failure is the not-implemented one.                                      *)
C6_NotImplemented ==
    (Ended /\ Unsupported) =>
        /\ compiled.status = "panic"
        /\ compiled.template = ""
        /\ (DimsKnown /\ (Spatial => "kernel_shape" \in DOMAIN op.node.attribute)) =>
              compiled.why \in {"not implemented", "not yet implemented"}

\* a convolution with auto_pad VALID was compiled and ended in unimplemented!()
C6_Witness ==
    /\ Ended
    /\ OpType = "Conv"
    /\ Attribute("auto_pad", "NOTSET") = "VALID"
    /\ "kernel_shape" \in DOMAIN op.node.attribute
    /\ compiled.status = "panic"
    /\ compiled.why = "not implemented"

\* x is n divided by k, rounded up
RoundsUp(x, n, k) == x * k >= n /\ (x - 1) * k < n

(* C7: when compile returns, y and z are 1; x is L/4 (integer division) for *)
(* a unary-map operator, L/16 for a copy operator and L/256 rounded up for  *)
(* Concat; so L = 4096 gives 1024 for a unary and 256 for a copy operator,  *)
(* and L = 1000 gives 4 for Concat.                                         *)
C7_Dispatch ==
    Returned =>
        /\ compiled.y = 1
        /\ compiled.z = 1
        /\ OpType \in MapOps => compiled.x = OutputLength \div 4
        /\ OpType \in CopyOps => compiled.x = OutputLength \div 16
        /\ OpType = "Concat" => RoundsUp(compiled.x, OutputLength, 256)
        /\ (OpType \in MapOps /\ OutputLength = 4096) => compiled.x = 1024
        /\ (OpType \in CopyOps /\ OutputLength = 4096) => compiled.x = 256
        /\ (OpType = "Concat" /\ OutputLength = 1000) => compiled.x = 4

\* a unary-map operator over 4096 elements was compiled to 1024 workgroups
C7_Witness ==
    /\ Returned
    /\ OpType = "Abs"
    /\ OutputLength = 4096
    /\ <<compiled.x, compiled.y, compiled.z>> = <<1024, 1, 1>>

InputChannels == op.dims_infos[op.node.input[1]][2]
OutputChannels == op.dims_infos[op.node.output[1]][2]

\* the attributes of the first fast path, on the resolved pads
UnitAttributes ==
    /\ Attribute("strides", <<1, 1>>) = <<1, 1>>
    /\ Attribute("kernel_shape", <<>>) = <<1, 1>>
    /\ Attribute("dilations", <<1, 1>>) = <<1, 1>>
    /\ compiled.context.pad = <<0, 0, 0, 0>>

FirstCase ==
    /\ UnitAttributes
    /\ InputChannels % 16 = 0
    /\ OutputChannels % 4 = 0

SecondCase ==
    /\ ~FirstCase
    /\ Attribute("strides", <<1, 1>>) = <<1, 1>>
    /\ Attribute("kernel_shape", <<>>) = <<3, 3>>
    /\ Attribute("dilations", <<1, 1>>) = <<1, 1>>
    /\ OutputChannels % 4 = 0

(* C8: a compiled Conv or ConvRelu uses the 1x1 kernel with L/1024 rounded  *)
(* up in the first case, else the 3x3 kernel with L/1024 rounded up in the  *)
(* second case, else the generic kernel with L/256 rounded up; 16 input and *)
(* 4 output channels with the first case's attributes take the 1x1 kernel,  *)
(* 15 input channels the generic one.                                       *)
C8_ConvKernel ==
    (Returned /\ OpType \in ConvOps) =>
        /\ FirstCase =>
              /\ compiled.template = "pool/conv_kernel_1.wgsl"
              /\ RoundsUp(compiled.x, OutputLength, 1024)
        /\ SecondCase =>
              /\ compiled.template = "pool/conv_kernel_3.wgsl"
              /\ RoundsUp(compiled.x, OutputLength, 1024)
        /\ (~FirstCase /\ ~SecondCase) =>
              /\ compiled.template = "pool/conv.wgsl"
              /\ RoundsUp(compiled.x, OutputLength, 256)
        /\ (UnitAttributes /\ InputChannels = 16 /\ OutputChannels = 4) =>
              compiled.template = "pool/conv_kernel_1.wgsl"
        /\ (UnitAttributes /\ InputChannels = 15 /\ OutputChannels = 4) =>
              compiled.template = "pool/conv.wgsl"

\* the first case's attributes with 15 input channels fell to the generic kernel
C8_Witness ==
    /\ Returned
    /\ OpType = "Conv"
    /\ UnitAttributes
    /\ InputChannels = 15
    /\ OutputChannels = 4
    /\ compiled.template = "pool/conv.wgsl"
    /\ compiled.x = 4

\* slack_a of the claim, a being 1 or 2
SlackOf(a) ==
    -Attribute("strides", <<1, 1>>)[a]
    + (Attribute("kernel_shape", <<>>)[a] - 1) * Attribute("dilations", <<1, 1>>)[a] + 1

\* half = slack / 2 and rem = slack % 2 as the source language divides:
\* the quotient is rounded toward zero and the remainder has the sign of slack
Halves(slack, half, rem) ==
    /\ slack = 2 * half + rem
    /\ rem \in {-1, 0, 1}
    /\ slack >= 0 => rem >= 0
    /\ slack <= 0 => rem <= 0

SlackRange == -(MaxStride + 1) .. (MaxKernel * (MaxDilation + 1) + 1)

(* C9: a compiled pooling or convolution operator has as resolved pads      *)
(* <<low_0, low_1, high_0, high_1>> the pads attribute when auto_pad is     *)
(* NOTSET, low_a = half_a and high_a = half_a + rem_a under SAME_UPPER,     *)
(* low_a = half_a + rem_a and high_a = half_a under SAME_LOWER; kernel 3x3, *)
(* stride 1x1, dilation 1x1 under SAME_UPPER gives <<1, 1, 1, 1>>.          *)
C9_ResolvedPads ==
    (Returned /\ Spatial) =>
        LET auto_pad == Attribute("auto_pad", "NOTSET")
            pad == compiled.context.pad
        IN  /\ auto_pad = "NOTSET" => pad = Attribute("pads", <<0, 0, 0, 0>>)
            /\ auto_pad = "SAME_UPPER" =>
                  /\ Len(pad) = 4
                  /\ \A a \in 1..2 : \E half \in SlackRange, rem \in {-1, 0, 1} :
                        /\ Halves(SlackOf(a), half, rem)
                        /\ pad[a] = half
                        /\ pad[a + 2] = half + rem
            /\ auto_pad = "SAME_LOWER" =>
                  /\ Len(pad) = 4
                  /\ \A a \in 1..2 : \E half \in SlackRange, rem \in {-1, 0, 1} :
                        /\ Halves(SlackOf(a), half, rem)
                        /\ pad[a] = half + rem
                        /\ pad[a + 2] = half
            /\ ( /\ auto_pad = "SAME_UPPER"
                 /\ Attribute("kernel_shape", <<>>) = <<3, 3>>
                 /\ Attribute("strides", <<1, 1>>) = <<1, 1>>
                 /\ Attribute("dilations", <<1, 1>>) = <<1, 1>> ) =>
                  pad = <<1, 1, 1, 1>>

\* a 3x3 pooling with unit stride was compiled under SAME_UPPER
C9_Witness ==
    /\ Returned
    /\ OpType = "MaxPool"
    /\ Attribute("auto_pad", "NOTSET") = "SAME_UPPER"
    /\ Attribute("kernel_shape", <<>>) = <<3, 3>>
    /\ Attribute("strides", <<1, 1>>) = <<1, 1>>
    /\ Attribute("dilations", <<1, 1>>) = <<1, 1>>
    /\ compiled.context.pad = <<1, 1, 1, 1>>

\* the nine characters of the claim
Removed == {"(", ")", ",", "\"", ".", ";", ":", "'", "/"}

\* the name without the nine characters, the others in their order
RECURSIVE Kept(_)
Kept(name) ==
    IF name = <<>> THEN <<>>
    ELSE IF Head(name) \in Removed THEN Kept(Tail(name))
    ELSE <<Head(name)>> \o Kept(Tail(name))

SanitizedFrom(raw, clean) ==
    /\ Len(clean) = Len(raw)
    /\ \A k \in DOMAIN raw :
          /\ clean[k] = Kept(raw[k])
          /\ Range(raw[k]) \cap Removed = {} => clean[k] = raw[k]
          /\ Sanitize(clean[k]) = clean[k]
          /\ raw[k] = Example => clean[k] = <<"a", "b", "c">>

(* C10: the input and output names compile hands to the template are the    *)
(* operator's names without the characters ( ) , " . ; : ' / and with every *)
(* other character in its original order; a name free of these characters,  *)
(* such as an already sanitized one, is unchanged, and a.b/c becomes abc.   *)
C10_Sanitized ==
    Returned =>
        /\ SanitizedFrom(op.node.input, compiled.context.input)
        /\ SanitizedFrom(op.node.output, compiled.context.output)

\* the operator reading a.b/c was compiled
C10_Witness ==
    /\ Returned
    /\ op.node.input[1] = Example
    /\ compiled.context.input[1] = <<"a", "b", "c">>

---------------------------------------------------------------------------
(* Reachability and demand in the graph builder. *)

\* the definition registered for a tensor name, the sentinel when there is none
Registered(n) ==
    IF n \in DOMAIN node_definitions_by_output
    THEN node_definitions_by_output[n]
    ELSE MISSING_OPTIONAL_INPUT

\* the unique names an operator record depends on, its own included
RECURSIVE DemandedBy(_)
DemandedBy(proto) ==
    {UniqueName(proto)} \cup
    UNION {IF Registered(n).kind = "Operator"
           THEN DemandedBy(Registered(n).proto)
           ELSE {GetName(Registered(n))} : n \in Range(proto.input)}

\* the unique names the requested outputs depend on
Demanded ==
    UNION {DemandedBy(model.node[k]) :
              k \in {j \in DOMAIN model.node :
                        \E r \in Range(output_names) :
                            /\ DeclaredBy(j, r)
                            /\ \A i \in 1..(j - 1) : ~DeclaredBy(i, r)}}

(* C11: when from_model succeeds, every Node created during the build, and  *)
(* so every entry of the memo map, is reachable from the returned root over *)
(* input edges, and the memo map holds a node only for names that a         *)
(* requested output depends on.                                             *)
C11_AllReachable ==
    result.status = "ok" =>
        /\ \A id \in DOMAIN heap : Reaches(heap, result.root, id)
        /\ \A n \in DOMAIN nodes_by_name :
              /\ Reaches(heap, result.root, nodes_by_name[n])
              /\ n \in Demanded

\* a build succeeded that left an operator of the model, and the initializer
\* only that operator reads, without a node
C11_Witness ==
    /\ result.status = "ok"
    /\ Len(model.node) = 2
    /\ Cardinality({id \in DOMAIN heap : Kind(heap, id) = "Operator"}) = 1
    /\ "t" \in model.initializer
    /\ "t" \in Range(model.node[2].input)
    /\ "t" \notin DOMAIN nodes_by_name
    /\ DOMAIN nodes_by_name # {}

---------------------------------------------------------------------------
(* Termination of the graph builder. *)

\* from_model has returned the root node or an error
Returns ==
    /\ pc = "done"
    /\ \/ result.status = "ok" /\ Kind(heap, result.root) = "Outputs"
       \/ result.status = "err"

\* no operator record was translated into a Node twice, and every translated
\* operator is the memo map's entry for its unique name
TranslatedAtMostOnce ==
    \A a \in DOMAIN heap :
        Kind(heap, a) = "Operator" =>
            /\ \A b \in DOMAIN heap :
                  (Kind(heap, b) = "Operator"
                   /\ heap[b].definition.proto = heap[a].definition.proto) => a = b
            /\ UniqueName(heap[a].definition.proto) \in DOMAIN nodes_by_name
            /\ nodes_by_name[UniqueName(heap[a].definition.proto)] = a

(* C12: for a finite model whose producer/consumer relation is acyclic,     *)
(* every call of from_model eventually returns, the root node or an error,  *)
(* and at no point of the build has an operator been translated more than   *)
(* once: each finished operator is in the memo map for its later consumers. *)
C12_Terminates == ((pc = "start") ~> Returns) /\ []TranslatedAtMostOnce

\* a build returned the root of a graph in which one consumer reads the same
\* upstream operator through two of its inputs
C12_Witness ==
    /\ Returns
    /\ result.status = "ok"
    /\ \E id \in DOMAIN heap :
          /\ Kind(heap, id) = "Operator"
          /\ Len(heap[id].inputs) = 2
          /\ heap[id].inputs[1].source_node = heap[id].inputs[2].source_node
          /\ Kind(heap, heap[id].inputs[1].source_node) = "Operator"

---------------------------------------------------------------------------
(* Variants of the edges' sources. *)

\* the edges of the operators with the tensor name each one consumes
OperatorEdges ==
    UNION {{[name |-> heap[id].definition.proto.input[k], edge |-> heap[id].inputs[k]] :
               k \in DOMAIN heap[id].inputs} :
           id \in {i \in DOMAIN heap : Kind(heap, i) = "Operator"}}

\* these and the edges of the root, built or under construction
ConsumedEdges ==
    OperatorEdges
    \cup
    UNION {{[name |-> heap[id].definition.names[k], edge |-> heap[id].inputs[k]] :
               k \in DOMAIN heap[id].inputs} :
           id \in {i \in DOMAIN heap : Kind(heap, i) = "Outputs"}}
    \cup
    {[name |-> output_names[k], edge |-> output_nodes[k]] : k \in DOMAIN output_nodes}

VariantsAgree ==
    \A c \in ConsumedEdges : Kind(heap, c.edge.source_node) = Registered(c.name).kind

\* no initializer carries the name of an operator output
InitializersApart ==
    \A k \in DOMAIN model.node : model.initializer \cap Range(model.node[k].output) = {}

(* C13 as stated, for the edges of the operators alone: the source node of  *)
(* an edge has the variant of the definition registered for the tensor name *)
(* the edge consumes, also when an initializer has the name of an           *)
(* operator's first output.                                                 *)
C13_Original ==
    \A c \in OperatorEdges : Kind(heap, c.edge.source_node) = Registered(c.name).kind

(* C13: when no initializer has the name of an operator output, the source  *)
(* node of every edge has the variant of the definition registered for the  *)
(* tensor name the edge consumes (Missing when none is registered), also    *)
(* when a declared input has the name of an operator's first output.        *)
C13_VariantsAgree == InitializersApart => VariantsAgree

\* a build succeeded on a model whose declared input o1 is also the first
\* output of an operator, with edges from an Operator and from a Tensor node
C13_Witness ==
    /\ result.status = "ok"
    /\ InitializersApart
    /\ FirstOut[1] \in model.input
    /\ \E c \in ConsumedEdges :
          c.name = FirstOut[1] /\ Kind(heap, c.edge.source_node) = "Operator"
    /\ \E c \in ConsumedEdges : Kind(heap, c.edge.source_node) = "Tensor"

---------------------------------------------------------------------------
(* Sign of the resolved pads. *)

\* a pooling or convolution was compiled under SAME_UPPER or SAME_LOWER; its
\* stride, kernel_shape and dilation entries are all at least 1
SamePadded ==
    /\ Returned
    /\ Spatial
    /\ Attribute("auto_pad", "NOTSET") \in {"SAME_UPPER", "SAME_LOWER"}
    /\ \A a \in 1..2 :
          /\ Attribute("strides", <<1, 1>>)[a] >= 1
          /\ Attribute("kernel_shape", <<>>)[a] >= 1
          /\ Attribute("dilations", <<1, 1>>)[a] >= 1

(* C14 as stated: under SAME_UPPER or SAME_LOWER with every stride,         *)
(* kernel_shape and dilation entry at least 1, all four resolved pads are   *)
(* non-negative.                                                            *)
C14_Original ==
    SamePadded => \A k \in 1..4 : compiled.context.pad[k] >= 0

(* C14: under SAME_UPPER or SAME_LOWER with every stride, kernel_shape and  *)
(* dilation entry at least 1, the two pads of an axis are non-negative when *)
(* the stride of that axis does not exceed the dilated kernel extent        *)
(* (slack >= 0), and one of them is negative when it does (slack < 0).      *)
C14_PadSigns ==
    SamePadded =>
        \A a \in 1..2 :
            /\ SlackOf(a) >= 0 =>
                  compiled.context.pad[a] >= 0 /\ compiled.context.pad[a + 2] >= 0
            /\ SlackOf(a) < 0 =>
                  compiled.context.pad[a] < 0 \/ compiled.context.pad[a + 2] < 0

\* stride 2 over a 1x1 kernel was compiled under SAME_UPPER: slack is -1 on
\* both axes and the high pads are -1
C14_Witness ==
    /\ SamePadded
    /\ Attribute("auto_pad", "NOTSET") = "SAME_UPPER"
    /\ SlackOf(1) = -1
    /\ SlackOf(2) = -1
    /\ compiled.context.pad = <<0, 0, -1, -1>>

---------------------------------------------------------------------------
(* Whether a work-group is launched. *)

\* the operators dispatched over L/4 work-groups, rounded down
QuarterOps == MapOps \cup ArithmeticOps \cup AlphaActivationOps \cup {"Transpose"}

\* the operators dispatched over a rounded-up count, or over one work-group
AlwaysLaunched == PoolOps \cup ConvOps \cup ActivationOps \cup {"Concat"}

\* the rows of the first input and the columns of the second, for Gemm/MatMul
LeftRows == op.dims_infos[op.node.input[1]][1]
RightColumns == op.dims_infos[op.node.input[2]][2]

\* compile returned for an operator whose output 0 has at least one element
Launched == Returned /\ OutputLength >= 1

(* C15 as stated: for every supported operator whose output 0 has at least  *)
(* one element, compile returns a dispatch x of at least 1.                 *)
C15_Original == Launched => compiled.x >= 1

(* C15: for a supported operator whose output 0 has L >= 1 elements, the    *)
(* dispatch x is at least 1 for Concat, pooling, convolution and the plain  *)
(* activation operators; for the unary-map, arithmetic, Celu/Elu and        *)
(* Transpose operators exactly when L >= 4; for the copy operators exactly  *)
(* when L >= 16; for Gemm/MatMul exactly when the first input has one row   *)
(* or (rows / 4) * right_columns >= 4 (integer division).  In every other   *)
(* case x is 0 and no work-group is launched.                               *)
C15_WorkGroups ==
    Launched =>
        /\ compiled.x >= 0
        /\ OpType \in AlwaysLaunched => compiled.x >= 1
        /\ OpType \in QuarterOps => (compiled.x >= 1 <=> OutputLength >= 4)
        /\ OpType \in CopyOps => (compiled.x >= 1 <=> OutputLength >= 16)
        /\ OpType \in GemmOps =>
              (compiled.x >= 1 <=>
                  \/ LeftRows = 1
                  \/ (LeftRows \div 4) * RightColumns >= 4)

\* a Gemm whose first input has 2 rows was compiled to a dispatch of no
\* work-group, although its output has 8 elements
C15_Witness ==
    /\ Launched
    /\ OpType = "Gemm"
    /\ LeftRows = 2
    /\ RightColumns = 4
    /\ OutputLength = 8
    /\ <<compiled.x, compiled.y, compiled.z>> = <<0, 1, 1>>

====
